---- MODULE Spec2Model ----
(***************************************************************************)
(* Model of the instrument drivers of eauyehara/Instrumental:              *)
(*   drivers/powersupplies/Keithley2635A.py   (class Keithley)             *)
(*   drivers/powersupplies/AgilentE3633A.py   (class AgilentE3633A)        *)
(*   drivers/spectrometers/hp.py              (class HPOSA)                *)
(*                                                                         *)
(* Every driver method is one action.  A method body is a composition of   *)
(* environment transformers: the environment carries the object's fields,  *)
(* the events the call has put on the session so far and the exception,    *)
(* if any, that is propagating.  Once an exception propagates every later  *)
(* statement of the method is skipped, as in Python.                       *)
(***************************************************************************)
EXTENDS Integers, Sequences, FiniteSets, TLC

VARIABLES
    is_on,            \* Keithley.is_on
    mode,             \* Keithley.mode
    cur_compliance,   \* Keithley.cur_compliance
    volt_compliance,  \* Keithley.volt_compliance
    OUTPUT_on,        \* AgilentE3633A.OUTPUT_on
    cur_limit,        \* AgilentE3633A.cur_limit
    timeout,          \* HPOSA._rsrc.timeout (ms)
    call,             \* the last method called, with its arguments
    io,               \* events of the last call, in order: writes, reads, sleeps
    err,              \* exception that left the last call ("none" if it returned)
    pre,              \* the object's fields when the last call began
    atfail,           \* whether an I/O operation of the last call failed, and the
                      \* object's fields and event count when the exception was raised
    out_before,       \* last output command on the wire before the last call
    ret,              \* what the last call returned ("None" when it raised)
    raw_spec_list,    \* list_instruments: the candidates found on the bus
    paramsets,        \* list_instruments: the descriptors collected
    open_sessions,    \* list_instruments: candidates whose session is still open
    closes,           \* number of close() calls that returned
    ren_released,     \* number of control_ren(False) issued to the transport
    visa_rsrc         \* the resource given to _check_visa_support: its settings

objvars == <<is_on, mode, cur_compliance, volt_compliance, OUTPUT_on, cur_limit,
             timeout>>
scanvars == <<raw_spec_list, paramsets, open_sessions>>
closevars == <<closes, ren_released>>

vars == <<is_on, mode, cur_compliance, volt_compliance, OUTPUT_on, cur_limit,
          timeout, call, io, err, pre, atfail, out_before, ret,
          raw_spec_list, paramsets, open_sessions, closes, ren_released,
          visa_rsrc>>

(***************************************************************************)
(* Bounds of the model.                                                    *)
(***************************************************************************)
\* the I/O operation of a call that fails is one of 1..MaxFail (0: none fails)
MaxFail == 9

(***************************************************************************)
(* Quantities (pint): a magnitude with a unit.  Magnitudes are integers    *)
(* counting 1e-6 of the unit.                                              *)
(***************************************************************************)
Q(m, unit) == [m |-> m, unit |-> unit]

\* Keithley2635A.py:12-13.  The voltage default carries the unit A in the source.
DEFAULT_CURRENT_COMPLIANCE == Q(100000, "A")
DEFAULT_VOLTAGE_COMPLIANCE == Q(5000000, "A")

RECURSIVE Pow10(_)
Pow10(k) == IF k <= 0 THEN 1 ELSE 10 * Pow10(k - 1)

RECURSIVE Digits(_)
Digits(n) == IF n < 10 THEN 1 ELSE 1 + Digits(n \div 10)

\* n rounded to d significant decimal digits, ties to even: the value that the
\* text produced by '%.<d-1>E' % n denotes.
RoundSig(n, d) ==
    LET a     == IF n < 0 THEN -n ELSE n
        scale == Pow10(Digits(a) - d)
        q     == a \div scale
        r     == a % scale
        up    == (2 * r > scale) \/ (2 * r = scale /\ q % 2 = 1)
        v     == (IF up THEN q + 1 ELSE q) * scale
    IN  IF n < 0 THEN -v ELSE v

\* '%.4E' % x
Fmt4E(x) == RoundSig(x, 5)

(***************************************************************************)
(* The environment of a running method.                                    *)
(***************************************************************************)
\* one event on the session: a command with its symbolic and numeric argument
Ev(cmd, s, n) == [cmd |-> cmd, s |-> s, n |-> n]

Enter(obj, failAt) ==
    [obj |-> obj, io |-> <<>>, err |-> "none", nio |-> 0, failAt |-> failAt,
     failed |-> FALSE, atfail |-> [obj |-> obj, len |-> 0], ret |-> "None"]

Raise(e, kind) ==
    IF e.err # "none" THEN e
    ELSE [e EXCEPT !.err = kind, !.atfail = [obj |-> e.obj, len |-> Len(e.io)]]

\* VisaMixin.write: the command goes on the wire, or the transport raises
\* (pyvisa VisaIOError) and nothing is sent.
Write(e, cmd, s, n) ==
    IF e.err # "none" THEN e
    ELSE IF e.nio + 1 = e.failAt
         THEN Raise([e EXCEPT !.nio = e.nio + 1, !.failed = TRUE], "VisaIOError")
         ELSE [e EXCEPT !.nio = e.nio + 1, !.io = Append(e.io, Ev(cmd, s, n))]

\* self.<field> = v
Assign(e, field, v) ==
    IF e.err # "none" THEN e ELSE [e EXCEPT !.obj[field] = v]

\* time.sleep(ms / 1000)
Sleep(e, ms) ==
    IF e.err # "none" THEN e ELSE [e EXCEPT !.io = Append(e.io, Ev("sleep", "", ms))]

\* q.to(unit).m : pint raises DimensionalityError for another dimension
ToUnit(e, q, unit) ==
    IF q.unit = unit THEN e ELSE Raise(e, "DimensionalityError")

\* resource.read: the response arrives, or the read times out (VisaIOError)
Read(e, resp) ==
    IF e.err # "none" THEN e
    ELSE IF e.nio + 1 = e.failAt
         THEN Raise([e EXCEPT !.nio = e.nio + 1, !.failed = TRUE], "VisaIOError")
         ELSE [e EXCEPT !.nio = e.nio + 1, !.io = Append(e.io, Ev("read", resp.s, resp.n))]

\* VisaMixin.query: write, then read
Query(e, cmd, resp) == Read(Write(e, cmd, "", 0), resp)

\* a local or the return value of the method is set to v
Return(e, v) ==
    IF e.err # "none" THEN e ELSE [e EXCEPT !.ret = v]

\* a response: numeric text denoting n (s = ""), or the text s
Num(n) == [s |-> "", n |-> n]
Txt(s) == [s |-> s, n |-> 0]

\* float(text): ValueError unless the text is a number
Float(e, resp) == IF resp.s = "" THEN e ELSE Raise(e, "ValueError")

(***************************************************************************)
(* Keithley 2635A                                                          *)
(***************************************************************************)
SETTLE_MS == 100

OUTPUT_CMD == "smua.source.output"
FUNC_CMD == "smua.source.func"

KeithleyObj ==
    [is_on |-> is_on, mode |-> mode, cur_compliance |-> cur_compliance,
     volt_compliance |-> volt_compliance]

\* turn_on with the flag left untouched
turn_on_NoTrack(e) ==
    Write(e, OUTPUT_CMD, "smua.OUTPUT_ON", 0)

turn_on(e) ==
    Assign(Write(e, OUTPUT_CMD, "smua.OUTPUT_ON", 0), "is_on", 1)

\* turn_off with the flag cleared even when the write raised
turn_off_Finally(e) ==
    LET e1 == Write(e, OUTPUT_CMD, "smua.OUTPUT_OFF", 0)
    IN  [e1 EXCEPT !.obj.is_on = 0]

turn_off(e) ==
    Assign(Write(e, OUTPUT_CMD, "smua.OUTPUT_OFF", 0), "is_on", 0)

\* set_func without the test of its argument
set_func_Unchecked(e, m) ==
    Assign(Write(e, FUNC_CMD, "smua.OUTPUT_DC" \o m, 0), "mode", m)

set_func(e, m) ==
    IF ~(m = "VOLTS" \/ m = "AMPS") THEN e
    ELSE Assign(Write(e, FUNC_CMD, "smua.OUTPUT_DC" \o m, 0), "mode", m)

set_voltage_compliance(e, v_comp) ==
    LET e0 == ToUnit(e, v_comp, "V")
        e1 == Write(e0, "smua.source.limitv", "", Fmt4E(v_comp.m))
        e2 == Write(e1, "smua.measure.rangev", "", Fmt4E(v_comp.m))
    IN  Assign(e2, "volt_compliance", v_comp)

set_current_compliance(e, i_comp) ==
    LET e0 == ToUnit(e, i_comp, "A")
        e1 == Write(e0, "smua.source.limiti", "", Fmt4E(i_comp.m))
    IN  Assign(e1, "cur_compliance", i_comp)

\* set_voltage with the source function changed before the output is turned off
set_voltage_FuncFirst(e, voltage) ==
    LET e1 == IF ~(e.obj.mode = "VOLTS")
              THEN Sleep(turn_off(set_func(e, "VOLTS")), SETTLE_MS)
              ELSE e
        e2 == IF e1.err = "none" /\ e1.obj.is_on = 0 THEN turn_on(e1) ELSE e1
    IN  Write(ToUnit(e2, voltage, "V"), "smua.source.levelv", "", Fmt4E(voltage.m))

\* set_voltage with the switch done whatever the tracked mode
set_voltage_AlwaysSwitch(e, voltage) ==
    LET e1 == Sleep(set_func(turn_off(e), "VOLTS"), SETTLE_MS)
        e2 == IF e1.err = "none" /\ e1.obj.is_on = 0 THEN turn_on(e1) ELSE e1
    IN  Write(ToUnit(e2, voltage, "V"), "smua.source.levelv", "", Fmt4E(voltage.m))

set_voltage(e, voltage) ==
    LET e1 == IF ~(e.obj.mode = "VOLTS")
              THEN Sleep(set_func(turn_off(e), "VOLTS"), SETTLE_MS)
              ELSE e
        e2 == IF e1.err = "none" /\ e1.obj.is_on = 0 THEN turn_on(e1) ELSE e1
    IN  Write(ToUnit(e2, voltage, "V"), "smua.source.levelv", "", Fmt4E(voltage.m))

\* set_current with the output turned off only when it is tracked as on
set_current_GuardedOff(e, current) ==
    LET e0 == IF e.obj.is_on # 0 THEN turn_off(e) ELSE e
        e1 == IF ~(e.obj.mode = "AMPS")
              THEN Sleep(set_func(e0, "AMPS"), SETTLE_MS)
              ELSE e
        e2 == IF e1.err = "none" /\ e1.obj.is_on = 0 THEN turn_on(e1) ELSE e1
    IN  Write(ToUnit(e2, current, "A"), "smua.source.leveli", "", Fmt4E(current.m))

set_current(e, current) ==
    LET e1 == IF ~(e.obj.mode = "AMPS")
              THEN Sleep(set_func(turn_off(e), "AMPS"), SETTLE_MS)
              ELSE e
        e2 == IF e1.err = "none" /\ e1.obj.is_on = 0 THEN turn_on(e1) ELSE e1
    IN  Write(ToUnit(e2, current, "A"), "smua.source.leveli", "", Fmt4E(current.m))

init_function(e) ==
    LET e1 == Write(e, "format.data", "format.ASCII", 0)
        e2 == Write(e1, "errorqueue.clear()", "", 0)
        e3 == Write(e2, "smua.nvbuffer1.clear()", "", 0)
        e4 == Write(e3, "waitcomplete()", "", 0)
        e5 == set_func(e4, e4.obj.mode)
        e6 == set_current_compliance(e5, e5.obj.cur_compliance)
    IN  set_voltage_compliance(e6, e6.obj.volt_compliance)

NPLC_MIN == 1
NPLC_MAX == 25
FILTER_COUNT_MIN == 1
FILTER_COUNT_MAX == 100

\* if x > hi: x = hi; if x < lo: x = lo
Clamp(x, lo, hi) ==
    LET x1 == IF x > hi THEN hi ELSE x
    IN  IF x1 < lo THEN lo ELSE x1

set_measurement_integration(e, nplc) ==
    Write(e, "smua.measure.nplc", "", Clamp(nplc, NPLC_MIN, NPLC_MAX))

\* type_str is bound for the three known types only: for any other type the
\* first write raises UnboundLocalError before anything is sent
set_filter(e, enable, type, count) ==
    LET e1 == IF type = "repeat_average"
              THEN Write(e, "smua.measure.filter.type", "smua.FILTER_REPEAT_AVG", 0)
              ELSE IF type = "moving_average"
              THEN Write(e, "smua.measure.filter.type", "smua.FILTER_MOVING_AVG", 0)
              ELSE IF type = "median"
              THEN Write(e, "smua.measure.filter.type", "smua.FILTER_MEDIAN", 0)
              ELSE Raise(e, "UnboundLocalError")
        e2 == Write(e1, "smua.measure.filter.count", "",
                    Clamp(count, FILTER_COUNT_MIN, FILTER_COUNT_MAX))
    IN  Write(e2, "smua.measure.filter.enable",
              IF enable THEN "smua.FILTER_ON" ELSE "smua.FILTER_OFF", 0)

(***************************************************************************)
(* Agilent E3633A.  Voltages and currents are plain numbers here (no pint   *)
(* quantity), counted in 1e-6 V and 1e-6 A.                                *)
(***************************************************************************)
DEFAULT_CURRENT_LIMIT == 500000
VOLT_MAX == 20000000

\* '%.6E' % x
Fmt6E(x) == RoundSig(x, 7)

AgilentObj == [OUTPUT_on |-> OUTPUT_on, cur_limit |-> cur_limit]

turn_output_on(e) ==
    Assign(Write(e, ":OUTP", "ON", 0), "OUTPUT_on", 1)

\* turn_output_off with the flag left untouched
turn_output_off_NoTrack(e) ==
    Write(e, ":OUTP", "OFF", 0)

turn_output_off(e) ==
    Assign(Write(e, ":OUTP", "OFF", 0), "OUTPUT_on", 0)

set_volt_range(e, volt_range) ==
    IF volt_range = "P8V" THEN Write(e, "VOLT:RANG", volt_range, 0)
    ELSE IF volt_range = "P20V" THEN Write(e, "VOLT:RANG", volt_range, 0)
    ELSE e

\* float(self.query('MEAS:VOLT?'))
measure_voltage(e, resp) == Float(Query(e, "MEAS:VOLT?", resp), resp)

\* self.query('VOLT:RANG?')
measure_volt_range(e, resp) == Query(e, "VOLT:RANG?", resp)

\* self.write("VOLT:PROT:CLE")
clear_overvolt_condition(e) == Write(e, "VOLT:PROT:CLE", "", 0)

VOLT_PROT_MAX_P8V == 8240000
VOLT_PROT_MAX_P20V == 20600000
CURR_PROT_MAX_P8V == 20000000
CURR_PROT_MAX_P20V == 10000000

\* the level is written iff it lies in the bounds of the range the instrument
\* reports; any other reply writes nothing
ProtectionLevel(e, cmd, level, volt_range, max8, max20) ==
    IF volt_range = "P8V"
    THEN IF level >= 0 /\ level <= max8
         THEN Write(e, cmd, "", Fmt6E(level)) ELSE e
    ELSE IF volt_range = "P20V"
    THEN IF level >= 0 /\ level <= max20
         THEN Write(e, cmd, "", Fmt6E(level)) ELSE e
    ELSE e

set_curr_protection_VoltBounds(e, curr_level, resp) ==
    ProtectionLevel(measure_volt_range(e, resp), "CURR:PROT:LEV", curr_level, resp.s,
                    VOLT_PROT_MAX_P8V, VOLT_PROT_MAX_P20V)

set_volt_protection(e, volt_level, resp) ==
    ProtectionLevel(measure_volt_range(e, resp), "VOLT:PROT:LEV", volt_level, resp.s,
                    VOLT_PROT_MAX_P8V, VOLT_PROT_MAX_P20V)

set_curr_protection(e, curr_level, resp) ==
    ProtectionLevel(measure_volt_range(e, resp), "CURR:PROT:LEV", curr_level, resp.s,
                    CURR_PROT_MAX_P8V, CURR_PROT_MAX_P20V)

\* set_voltage with the output turned on before the level is written
A_set_voltage_OnFirst(e, voltage) ==
    LET e1 == IF e.obj.OUTPUT_on = 0 THEN turn_output_on(e) ELSE e
    IN  IF voltage >= 0 /\ voltage <= VOLT_MAX
        THEN Write(e1, ":SOUR:VOLT", "", Fmt6E(voltage))
        ELSE e1

A_set_voltage(e, voltage) ==
    LET e1 == IF voltage >= 0 /\ voltage <= VOLT_MAX
              THEN Write(e, ":SOUR:VOLT", "", Fmt6E(voltage))
              ELSE e
    IN  IF e1.err = "none" /\ e1.obj.OUTPUT_on = 0 THEN turn_output_on(e1) ELSE e1

\* set_current_limit with the limit written while the output stays on
set_current_limit_NoOff(e, current_limit) ==
    Write(e, ":SOUR:CURR", "", Fmt6E(current_limit))

set_current_limit(e, current_limit) ==
    LET e1 == IF e.obj.OUTPUT_on # 0 THEN turn_output_off(e) ELSE e
    IN  Write(e1, ":SOUR:CURR", "", Fmt6E(current_limit))

(***************************************************************************)
(* HP 70951B optical spectrum analyzer                                     *)
(***************************************************************************)
TIMEOUT_DEFAULT == 300
TIMEOUT_SWEEP_TIME == 5000
TIMEOUT_SPECTRUM == 15000
TIMEOUT_PEAK == 5000

HPObj == [timeout |-> timeout]

get_center_wavelength(e, resp) == Float(Query(e, "CF?", resp), resp)

get_wavelength_span(e, resp) == Float(Query(e, "SP?", resp), resp)

set_center_wavelength(e, cf_nm) == Write(e, "CF", "NM", cf_nm)

\* au is bound only for 'W', 'MW' and 'DBM': any other reply leaves the local
\* unbound and the return raises UnboundLocalError
get_amplitude_units(e, resp) ==
    LET e1 == Query(e, "AUNITS?", resp)
    IN  IF resp.s \in {"W", "MW", "DBM"} THEN e1 ELSE Raise(e1, "UnboundLocalError")

get_sweep_time(e, resp) ==
    LET e1 == Assign(e, "timeout", TIMEOUT_SWEEP_TIME)
    IN  Float(Query(e1, "ST?", resp), resp)

\* A trace payload is the sequence of its comma-separated tokens, each a
\* response record: numeric text (Num) or other text (Txt).
IsNumeric(tok) == tok.s = ""

\* the tokens before the first one that is not a number
RECURSIVE NumericPrefix(_)
NumericPrefix(tokens) ==
    IF tokens = <<>> \/ ~IsNumeric(Head(tokens)) THEN <<>>
    ELSE <<Head(tokens).n>> \o NumericPrefix(Tail(tokens))

\* np.fromstring(text, sep=','): reading stops at the first token that is not a
\* number.  numpy then returns what was read so far with a DeprecationWarning;
\* a numpy in which that deprecation has expired, or an interpreter that turns
\* warnings into errors, raises instead (strict).
fromstring(e, tokens, strict) ==
    IF strict /\ \E k \in DOMAIN tokens : ~IsNumeric(tokens[k])
    THEN Raise(e, "ValueError")
    ELSE e

\* a rational number num / den, den > 0
Rat(num, den) == [num |-> num, den |-> den]

Linspace_NoEndpoint(start2, stop2, num) ==
    [i \in 1..num |-> Rat(start2 * num + (i - 1) * (stop2 - start2), 2 * num)]

\* np.linspace(start, stop, num) for start = start2 / 2 and stop = stop2 / 2:
\* num samples start + i * (stop - start) / (num - 1); one sample is start alone
Linspace(start2, stop2, num) ==
    IF num = 1 THEN <<Rat(start2, 2)>>
    ELSE [i \in 1..num |->
             Rat(start2 * (num - 1) + (i - 1) * (stop2 - start2), 2 * (num - 1))]

\* r: the responses the instrument gives to the four queries of the call.  The
\* lengths CF? and SP? report in m are held in units of 1e-9 m, the magnitude
\* that .to(u.nm) yields.
get_spectrum(e, trace, r, strict) ==
    LET e1 == Assign(e, "timeout", TIMEOUT_SPECTRUM)
        e2 == get_amplitude_units(e1, r[1])
        e3 == get_center_wavelength(e2, r[2])
        e4 == get_wavelength_span(e3, r[3])
        e5 == Write(e4, "TS;DONE?", "", 0)
        e6 == fromstring(Query(e5, "TR" \o trace \o "?", r[4]), r[4].s, strict)
        amp == NumericPrefix(r[4].s)
        wl_start2 == 2 * r[2].n - r[3].n
        wl_stop2 == 2 * r[2].n + r[3].n
        n_pts == Len(amp)
        wl == Linspace(wl_start2, wl_stop2, n_pts)
        e7 == Assign(e6, "timeout", TIMEOUT_DEFAULT)
        e8 == Write(e7, "CLRW", "TR" \o trace, 0)
    IN  Return(e8, [wl |-> wl, amp |-> amp, au |-> r[1].s])

AppendPeak_Prepend(lists, wl, amp) ==
    [pk_wl |-> <<wl>> \o lists.pk_wl, pk_amp |-> <<amp>> \o lists.pk_amp]

\* pk_wl.append(float(wl)); pk_amp.append(float(amp))
AppendPeak(lists, wl, amp) ==
    [pk_wl |-> Append(lists.pk_wl, wl), pk_amp |-> Append(lists.pk_amp, amp)]

\* one pass of the loop of get_peak_info; r: the responses to MKA? and MKF?
PeakStep(e, pk, r) ==
    LET e1 == Write(e, "TS;DONE?;", "", 0)
        e2 == Write(e1, "MK;", "", 0)
        e3 == Write(e2, "MKPK", pk \o ";", 0)
        e4 == Query(e3, "MKA?;", r[1])
        e5 == Query(e4, "MKF?;", r[2])
        e6 == Float(Float(e5, r[2]), r[1])
    IN  Return(e6, AppendPeak(e6.ret, r[2].n, r[1].n))

RECURSIVE PeakLoop(_, _, _)
PeakLoop(e, peak_id, rs) ==
    IF peak_id = <<>> THEN e
    ELSE PeakLoop(PeakStep(e, Head(peak_id), Head(rs)), Tail(peak_id), Tail(rs))

get_peak_info(e, peak_id, rs) ==
    LET e0 == Return(e, [pk_wl |-> <<>>, pk_amp |-> <<>>])
        e1 == Assign(e0, "timeout", TIMEOUT_PEAK)
        e2 == PeakLoop(e1, peak_id, rs)
    IN  Assign(e2, "timeout", TIMEOUT_DEFAULT)

(***************************************************************************)
(* close (Keithley2635A.py:257, AgilentE3633A.py:55)                        *)
(***************************************************************************)
MaxClose == 2

\* self._rsrc.control_ren(False): the request reaches the transport, or it raises
ControlRen(e, enable) == Write(e, "control_ren", enable, 0)

\* close(): release remote enable; no field of the object records the close
close(e) == ControlRen(e, "False")

IsControlRen(ev) == ev.cmd = "control_ren"

(***************************************************************************)
(* Observation of the wire.                                                *)
(***************************************************************************)
IsOutputOn(ev) ==
    \/ ev.cmd = OUTPUT_CMD /\ ev.s = "smua.OUTPUT_ON"
    \/ ev.cmd = ":OUTP" /\ ev.s = "ON"

IsOutputOff(ev) ==
    \/ ev.cmd = OUTPUT_CMD /\ ev.s = "smua.OUTPUT_OFF"
    \/ ev.cmd = ":OUTP" /\ ev.s = "OFF"

IsOutput(ev) == IsOutputOn(ev) \/ IsOutputOff(ev)

IsFunc(ev) == ev.cmd = FUNC_CMD

\* the last output command among the first k events of log, else before
LastOut(log, k, before) ==
    LET S == {i \in 1..k : IsOutput(log[i])}
    IN  IF S = {} THEN before
        ELSE LET j == CHOOSE i \in S : \A i2 \in S : i2 <= i
             IN  IF IsOutputOn(log[j]) THEN "ON" ELSE "OFF"

\* the commands that hold a query ('?'): the instrument answers each with one
\* response, which stays in its output buffer until it is read
QueryCommands ==
    {"CF?", "SP?", "ST?", "AUNITS?", "TS;DONE?", "TS;DONE?;", "TRA?", "TRB?",
     "MKA?;", "MKF?;", "MEAS:VOLT?", "VOLT:RANG?"}

IsRead(ev) == ev.cmd = "read"

IsWrite(ev) == ev.cmd # "read" /\ ev.cmd # "sleep"

IsQueryWrite(ev) == IsWrite(ev) /\ ev.cmd \in QueryCommands

\* the responses still unread after the first k events of log
Unread(log, k) ==
    Cardinality({i \in 1..k : IsQueryWrite(log[i])})
        - Cardinality({i \in 1..k : IsRead(log[i])})

(***************************************************************************)
(* Inputs                                                                  *)
(***************************************************************************)
Modes == {"VOLTS", "AMPS", "CURR"}
Voltages == {Q(1000000, "V"), Q(1234567, "V")}
Currents == {Q(1000, "A"), Q(20000, "A")}
VoltCompliances == {Q(5000000, "V"), Q(10000000, "V")}
CurCompliances == {Q(100000, "A"), Q(50000, "A")}
Fails == 0..MaxFail

\* Agilent: voltages inside and outside 0..20 V, current limits
AgilentVoltages == {-1000000, 0, 5000000, VOLT_MAX, VOLT_MAX + 1, 25000000}
CurrentLimits == {DEFAULT_CURRENT_LIMIT, 1000000}
VoltRanges == {"P8V", "P20V", "P15V"}
VoltLevels == {-1, 0, VOLT_PROT_MAX_P8V, VOLT_PROT_MAX_P8V + 1,
               VOLT_PROT_MAX_P20V, VOLT_PROT_MAX_P20V + 1}
CurrLevels == {-1, 0, CURR_PROT_MAX_P20V, CURR_PROT_MAX_P20V + 1,
               CURR_PROT_MAX_P8V, CURR_PROT_MAX_P8V + 1}
RangeReplies == {Txt(r) : r \in VoltRanges}

\* HPOSA: replies of the instrument
NumReplies == {Num(1550), Txt("?")}
UnitReplies == {Txt("W"), Txt("DBM"), Txt("?")}
Traces == {"A", "B"}
PeakKinds == {"HIP", "NH"}
MaxPeaks == 2
PeakIds == UNION {[1..n -> PeakKinds] : n \in 0..MaxPeaks}
\* replies to every pass of the peak loop: all numeric, or the reply to one
\* query (pass i, query k) is not a number
\* the marker readings <<amplitude, wavelength>> of two peaks, and a garbled one
MarkerReplies == << <<Num(3), Num(1550)>>, <<Num(7), Num(1560)>> >>
GarbledReply == <<Num(3), Txt("?")>>

\* the readings of n passes: the two peaks in turn, starting with either, one pass
\* at most being garbled
PeakReplies(n) ==
    {[i \in 1..n |-> IF i = bad THEN GarbledReply
                     ELSE MarkerReplies[1 + ((i + first) % 2)]] :
        first \in 0..1, bad \in 0..n}

(***************************************************************************)
(* Initial state: the driver objects after _initialize, with the arguments *)
(* vc (Keithley voltage_compliance) and cl (Agilent current_limit).        *)
(***************************************************************************)
\* a serial resource as pyvisa opens it
DefaultResource ==
    [read_termination |-> "None", write_termination |-> "CRLF", baud_rate |-> 9600]

InitWith(vc, cl) ==
    /\ is_on = 0
    /\ mode = "VOLTS"
    /\ cur_compliance = DEFAULT_CURRENT_COMPLIANCE
    /\ volt_compliance = vc
    /\ OUTPUT_on = 0
    /\ cur_limit = cl
    /\ timeout = TIMEOUT_DEFAULT
    /\ call = [op |-> "_initialize", arg |-> <<>>]
    /\ io = <<>>
    /\ err = "none"
    /\ pre = [op |-> "none"]
    /\ atfail = [obj |-> [op |-> "none"], len |-> 0, failed |-> FALSE]
    /\ out_before = "none"
    /\ ret = "None"
    /\ raw_spec_list = <<>>
    /\ paramsets = <<>>
    /\ open_sessions = {}
    /\ closes = 0
    /\ ren_released = 0
    /\ visa_rsrc = DefaultResource

\* Keithley(...) with the default voltage compliance or one given in volts
InitKeithley ==
    \E vc \in {DEFAULT_VOLTAGE_COMPLIANCE, Q(5000000, "V")} :
        InitWith(vc, DEFAULT_CURRENT_LIMIT)

Init == InitWith(DEFAULT_VOLTAGE_COMPLIANCE, DEFAULT_CURRENT_LIMIT)

(***************************************************************************)
(* A method call: run the body on the object's fields, then store the      *)
(* fields back and record what the call did.                               *)
(***************************************************************************)
Observe(name, arg, obj, e) ==
    /\ call' = [op |-> name, arg |-> arg]
    /\ io' = e.io
    /\ err' = e.err
    /\ pre' = obj
    /\ atfail' = [obj |-> e.atfail.obj, len |-> e.atfail.len, failed |-> e.failed]
    /\ out_before' = LastOut(io, Len(io), out_before)
    /\ ret' = (IF e.err = "none" THEN e.ret ELSE "None")
    /\ UNCHANGED scanvars

KeithleyCall(name, arg, e) ==
    /\ is_on' = e.obj.is_on
    /\ mode' = e.obj.mode
    /\ cur_compliance' = e.obj.cur_compliance
    /\ volt_compliance' = e.obj.volt_compliance
    /\ Observe(name, arg, KeithleyObj, e)
    /\ UNCHANGED <<OUTPUT_on, cur_limit, timeout>>
    /\ UNCHANGED closevars
    /\ UNCHANGED visa_rsrc

AgilentCall(name, arg, e) ==
    /\ OUTPUT_on' = e.obj.OUTPUT_on
    /\ cur_limit' = e.obj.cur_limit
    /\ Observe(name, arg, AgilentObj, e)
    /\ UNCHANGED <<is_on, mode, cur_compliance, volt_compliance, timeout>>
    /\ UNCHANGED closevars
    /\ UNCHANGED visa_rsrc

HPCall(name, arg, e) ==
    /\ timeout' = e.obj.timeout
    /\ Observe(name, arg, HPObj, e)
    /\ UNCHANGED <<is_on, mode, cur_compliance, volt_compliance, OUTPUT_on, cur_limit>>
    /\ UNCHANGED closevars
    /\ UNCHANGED visa_rsrc

(***************************************************************************)
(* Keithley actions                                                        *)
(***************************************************************************)
K_turn_on ==
    \E f \in Fails : KeithleyCall("turn_on", <<>>, turn_on(Enter(KeithleyObj, f)))

K_turn_off ==
    \E f \in Fails : KeithleyCall("turn_off", <<>>, turn_off(Enter(KeithleyObj, f)))

K_set_func ==
    \E f \in Fails, m \in Modes :
        KeithleyCall("set_func", m, set_func(Enter(KeithleyObj, f), m))

K_set_voltage_compliance ==
    \E f \in Fails, v \in VoltCompliances :
        KeithleyCall("set_voltage_compliance", v,
                     set_voltage_compliance(Enter(KeithleyObj, f), v))

K_set_current_compliance ==
    \E f \in Fails, i \in CurCompliances :
        KeithleyCall("set_current_compliance", i,
                     set_current_compliance(Enter(KeithleyObj, f), i))

K_set_voltage ==
    \E f \in Fails, v \in Voltages :
        KeithleyCall("set_voltage", v, set_voltage(Enter(KeithleyObj, f), v))

K_set_current ==
    \E f \in Fails, i \in Currents :
        KeithleyCall("set_current", i, set_current(Enter(KeithleyObj, f), i))

K_init_function ==
    \E f \in Fails :
        KeithleyCall("init_function", <<>>, init_function(Enter(KeithleyObj, f)))

\* close() returned: counted in closes; each control_ren that reached the
\* transport is counted in ren_released
Closed(e) ==
    /\ closes < MaxClose
    /\ closes' = (IF e.err = "none" THEN closes + 1 ELSE closes)
    /\ ren_released' = ren_released + Cardinality({i \in DOMAIN e.io : IsControlRen(e.io[i])})

K_close ==
    \E f \in Fails :
        LET e == close(Enter(KeithleyObj, f))
        IN  /\ Observe("close", <<>>, KeithleyObj, e)
            /\ Closed(e)
            /\ UNCHANGED objvars
            /\ UNCHANGED visa_rsrc

NextKeithley ==
    \/ K_close
    \/ K_turn_on
    \/ K_turn_off
    \/ K_set_func
    \/ K_set_voltage_compliance
    \/ K_set_current_compliance
    \/ K_set_voltage
    \/ K_set_current
    \/ K_init_function

SpecKeithley == InitKeithley /\ [][NextKeithley]_vars

(***************************************************************************)
(* Keithley measurement settings                                           *)
(***************************************************************************)
NplcValues == {0 - 3, 0, 1, 2, 24, 25, 26, 1000}
FilterCounts == {0 - 1, 0, 1, 10, 100, 101}
FilterTypes == {"repeat_average", "moving_average", "median", "mean"}

\* set_filter makes three writes: the failures that can happen in it
SettingFails == {f \in Fails : f <= 3}

K_set_measurement_integration ==
    \E f \in SettingFails, nplc \in NplcValues :
        KeithleyCall("set_measurement_integration", nplc,
                     set_measurement_integration(Enter(KeithleyObj, f), nplc))

K_set_filter ==
    \E f \in SettingFails, enable \in BOOLEAN, type \in FilterTypes,
       count \in FilterCounts :
        KeithleyCall("set_filter", [enable |-> enable, type |-> type, count |-> count],
                     set_filter(Enter(KeithleyObj, f), enable, type, count))

NextSettings ==
    \/ K_set_measurement_integration
    \/ K_set_filter

SpecSettings == InitKeithley /\ [][NextSettings]_vars

(***************************************************************************)
(* Agilent actions                                                         *)
(***************************************************************************)
A_turn_output_on ==
    \E f \in Fails :
        AgilentCall("turn_output_on", <<>>, turn_output_on(Enter(AgilentObj, f)))

A_turn_output_off ==
    \E f \in Fails :
        AgilentCall("turn_output_off", <<>>, turn_output_off(Enter(AgilentObj, f)))

A_set_volt_range ==
    \E f \in Fails, r \in VoltRanges :
        AgilentCall("set_volt_range", r, set_volt_range(Enter(AgilentObj, f), r))

A_set_voltage_call ==
    \E f \in Fails, v \in AgilentVoltages :
        AgilentCall("set_voltage", v, A_set_voltage(Enter(AgilentObj, f), v))

A_set_current_limit ==
    \E f \in Fails, c \in CurrentLimits :
        AgilentCall("set_current_limit", c, set_current_limit(Enter(AgilentObj, f), c))

A_measure_voltage ==
    \E f \in Fails, r \in {Num(5000000), Txt("?")} :
        AgilentCall("measure_voltage", <<>>, measure_voltage(Enter(AgilentObj, f), r))

A_measure_volt_range ==
    \E f \in Fails, r \in {Txt("P8V"), Txt("P20V")} :
        AgilentCall("measure_volt_range", <<>>,
                    measure_volt_range(Enter(AgilentObj, f), r))

A_clear_overvolt_condition ==
    \E f \in Fails :
        AgilentCall("clear_overvolt_condition", <<>>,
                    clear_overvolt_condition(Enter(AgilentObj, f)))

A_set_volt_protection ==
    \E f \in Fails, v \in VoltLevels, r \in RangeReplies :
        AgilentCall("set_volt_protection", v,
                    set_volt_protection(Enter(AgilentObj, f), v, r))

A_set_curr_protection ==
    \E f \in Fails, c \in CurrLevels, r \in RangeReplies :
        AgilentCall("set_curr_protection", c,
                    set_curr_protection(Enter(AgilentObj, f), c, r))

A_close ==
    \E f \in Fails :
        LET e == close(Enter(AgilentObj, f))
        IN  /\ Observe("close", <<>>, AgilentObj, e)
            /\ Closed(e)
            /\ UNCHANGED objvars
            /\ UNCHANGED visa_rsrc

NextAgilent ==
    \/ A_close
    \/ A_set_volt_protection
    \/ A_set_curr_protection
    \/ A_measure_voltage
    \/ A_measure_volt_range
    \/ A_clear_overvolt_condition
    \/ A_turn_output_on
    \/ A_turn_output_off
    \/ A_set_volt_range
    \/ A_set_voltage_call
    \/ A_set_current_limit

SpecAgilent == Init /\ [][NextAgilent]_vars

(***************************************************************************)
(* A power-supply session: a Keithley object or an AgilentE3633A object,   *)
(* each with its own resource.  pre holds the fields of the object the     *)
(* calls so far were made on.                                              *)
(***************************************************************************)
IsFresh == DOMAIN pre = {"op"}
IsKeithleySession == "is_on" \in DOMAIN pre
IsAgilentSession == "OUTPUT_on" \in DOMAIN pre

KeithleySession == (IsFresh \/ IsKeithleySession) /\ NextKeithley

AgilentSession == (IsFresh \/ IsAgilentSession) /\ NextAgilent

NextSupplies ==
    \/ KeithleySession
    \/ AgilentSession

SpecSupplies == InitKeithley /\ [][NextSupplies]_vars

(***************************************************************************)
(* HPOSA actions                                                           *)
(***************************************************************************)
H_get_center_wavelength ==
    \E f \in Fails, r \in NumReplies :
        HPCall("get_center_wavelength", <<>>,
               get_center_wavelength(Enter(HPObj, f), r))

H_set_center_wavelength ==
    \E f \in Fails, cf \in {1550, 1310} :
        HPCall("set_center_wavelength", cf, set_center_wavelength(Enter(HPObj, f), cf))

H_get_sweep_time ==
    \E f \in Fails, r \in NumReplies :
        HPCall("get_sweep_time", <<>>, get_sweep_time(Enter(HPObj, f), r))

H_get_spectrum ==
    \E f \in Fails, t \in Traces, au \in UnitReplies, bad \in 0..4 :
      \E strict \in {FALSE, bad = 4} :
        LET r == [k \in 1..4 |->
                     IF k = 1 THEN au
                     ELSE IF k = 4
                          THEN Txt(IF k = bad THEN <<Num(1), Txt("x")>>
                                   ELSE <<Num(1), Num(2)>>)
                          ELSE IF k = bad THEN Txt("?") ELSE Num(1550)]
        IN  HPCall("get_spectrum", t, get_spectrum(Enter(HPObj, f), t, r, strict))

H_get_peak_info ==
    \E f \in Fails, peak_id \in PeakIds :
        \E rs \in PeakReplies(Len(peak_id)) :
            HPCall("get_peak_info", peak_id, get_peak_info(Enter(HPObj, f), peak_id, rs))

NextHPOSA ==
    \/ H_get_center_wavelength
    \/ H_set_center_wavelength
    \/ H_get_sweep_time
    \/ H_get_spectrum
    \/ H_get_peak_info

SpecHPOSA == Init /\ [][NextHPOSA]_vars

(***************************************************************************)
(* get_spectrum over trace payloads of 0..MaxPts tokens                    *)
(***************************************************************************)
MaxPts == 5

\* the amplitudes 1..n, or the same with the token at position bad garbled
Payload(n, bad) == [k \in 1..n |-> IF k = bad THEN Txt("x") ELSE Num(k)]

Payloads == {Payload(n, bad) : n \in 0..MaxPts, bad \in 0..MaxPts}

CenterReplies == {Num(1550)}
SpanReplies == {Num(10), Num(0)}

S_get_spectrum ==
    \E f \in Fails, au \in {Txt("W"), Txt("DBM")}, cf \in CenterReplies,
       sp \in SpanReplies, p \in Payloads, strict \in BOOLEAN :
        HPCall("get_spectrum", "A",
               get_spectrum(Enter(HPObj, f), "A", <<au, cf, sp, Txt(p)>>, strict))

NextSpectrum == S_get_spectrum

SpecSpectrum == Init /\ [][NextSpectrum]_vars

(***************************************************************************)
(* Eagle.spectrum (ibsen.py).  The frame read from the spectrometer is the  *)
(* sequence of its whitespace-separated tokens, a token a sequence of      *)
(* characters.                                                             *)
(***************************************************************************)
MaxTokens == 3
SETTLE_EAGLE_MS == 50

DigitChars == <<"0", "1", "2", "3", "4", "5", "6", "7", "8", "9">>

IsDigit(c) == \E k \in DOMAIN DigitChars : DigitChars[k] = c

DigitVal(c) == (CHOOSE k \in DOMAIN DigitChars : DigitChars[k] = c) - 1

RECURSIVE DecValue(_)
DecValue(tok) ==
    IF tok = <<>> THEN 0
    ELSE 10 * DecValue(SubSeq(tok, 1, Len(tok) - 1)) + DigitVal(tok[Len(tok)])

IsDecimal(tok) == tok # <<>> /\ \A k \in DOMAIN tok : IsDigit(tok[k])

\* int(val) accepts an optional sign followed by decimal digits
IsPyInt(tok) ==
    \/ IsDecimal(tok)
    \/ Len(tok) > 1 /\ tok[1] \in {"+", "-"} /\ IsDecimal(Tail(tok))

PyInt(tok) ==
    IF tok[1] = "-" THEN 0 - DecValue(Tail(tok))
    ELSE IF tok[1] = "+" THEN DecValue(Tail(tok))
    ELSE DecValue(tok)

StripPrefix_One(tok) == SubSeq(tok, 2, Len(tok))

\* raw_data[0][2:]
StripPrefix(tok) == SubSeq(tok, 3, Len(tok))

\* data1, data_list and the insert
DataList(raw_data) ==
    LET data1 == StripPrefix(raw_data[1])
        data_list == Tail(raw_data)
    IN  IF data1 # <<>> THEN <<data1>> \o data_list ELSE data_list

\* np.array([int(val) for val in data_list])
Counts(e, data_list) ==
    IF \A k \in DOMAIN data_list : IsPyInt(data_list[k])
    THEN Return(e, [k \in DOMAIN data_list |-> PyInt(data_list[k])])
    ELSE Raise(e, "ValueError")

spectrum(e, t_int, frame) ==
    LET e1 == Write(e, "*MEAsure", "1 2", t_int)
        e2 == Sleep(e1, t_int + SETTLE_EAGLE_MS)
        e3 == Read(e2, Txt(frame))
    IN  IF e3.err # "none" THEN e3
        ELSE IF frame = <<>> THEN Raise(e3, "IndexError")
        ELSE Counts(e3, DataList(frame))

\* no field of the Eagle object is read or written by spectrum
EagleObj == [op |-> "Eagle"]

FirstTokens ==
    {<<"A">>, <<"A", "B">>, <<"A", "B", "1">>, <<"A", "B", "1", "2">>,
     <<"1", "2", "3", "4">>, <<"1", "2">>, <<"A", "B", "x">>, <<"0", "0", "-", "5">>}
RestTokens == {<<"3", "4">>, <<"5", "6">>, <<"-", "7">>}

Frames ==
    {<<>>} \cup
    {<<first>> \o rest : first \in FirstTokens,
                         rest \in UNION {[1..n -> RestTokens] : n \in 0..(MaxTokens - 1)}}

IntegrationTimes == {10, 6000}

\* spectrum makes two transfers: the failures that can happen in it
EagleFails == {f \in Fails : f <= 2}

EAGLE_BAUD_RATE == 921600

\* except: the exception is caught, whatever it is
Catch(e) == [e EXCEPT !.err = "none"]

\* the three assignments that put the saved settings back
Restore(e, rt0, wt0, br0) ==
    Assign(Assign(Assign(e, "read_termination", rt0), "write_termination", wt0),
           "baud_rate", br0)

_check_visa_support_KeepOnError(e, resp) ==
    LET e1 == Assign(e, "read_termination", "CR")
        e2 == Assign(e1, "write_termination", "CR")
        e3 == Assign(e2, "baud_rate", EAGLE_BAUD_RATE)
        e4 == Query(e3, "*IDN?", resp)
    IN  IF e4.err # "none" THEN Return(Catch(e4), "None")
        ELSE IF resp.s = "JETI_PIC_VERSA" THEN Return(e4, "Eagle")
        ELSE Return(Restore(e4, e.obj.read_termination, e.obj.write_termination,
                            e.obj.baud_rate), "None")

_check_visa_support(e, resp) ==
    LET rt0 == e.obj.read_termination
        wt0 == e.obj.write_termination
        br0 == e.obj.baud_rate
        e1 == Assign(e, "read_termination", "CR")
        e2 == Assign(e1, "write_termination", "CR")
        e3 == Assign(e2, "baud_rate", EAGLE_BAUD_RATE)
        e4 == Query(e3, "*IDN?", resp)
    IN  IF e4.err # "none"
        THEN Return(Restore(Catch(e4), rt0, wt0, br0), "None")
        ELSE IF resp.s = "JETI_PIC_VERSA" THEN Return(e4, "Eagle")
        ELSE Return(Restore(e4, rt0, wt0, br0), "None")

\* the settings a resource may have when it is handed to the probe
Resources ==
    [read_termination : {"None", "LF", "CR"},
     write_termination : {"CRLF", "LF", "CR"},
     baud_rate : {9600, EAGLE_BAUD_RATE}]

IdnReplies ==
    {Txt("JETI_PIC_VERSA"), Txt("JETI_PIC_VERSA 2"), Txt("jeti_pic_versa"),
     Txt("HP70951B"), Txt("")}

\* the probe is given a resource, and leaves it with the settings of e.obj
E_check_visa_support ==
    \E f \in EagleFails, rsrc \in Resources, resp \in IdnReplies :
        LET e == _check_visa_support(Enter(rsrc, f), resp)
        IN  /\ Observe("_check_visa_support", <<>>, rsrc, e)
            /\ visa_rsrc' = e.obj
            /\ UNCHANGED objvars
            /\ UNCHANGED <<closes, ren_released>>

E_spectrum ==
    \E f \in EagleFails, t_int \in IntegrationTimes, frame \in Frames :
        /\ Observe("spectrum", t_int, EagleObj, spectrum(Enter(EagleObj, f), t_int, frame))
        /\ UNCHANGED objvars
        /\ UNCHANGED closevars
        /\ UNCHANGED visa_rsrc

NextIbsen == E_spectrum

SpecIbsen == Init /\ [][NextIbsen]_vars

\* the probe runs on resources for which no driver object exists yet
NextProbe == E_check_visa_support

SpecProbe == Init /\ [][NextProbe]_vars

(***************************************************************************)
(* The numeric text of the power supplies: '%.4E' % x (Keithley2635A.py),  *)
(* '%.6E' % x (AgilentE3633A.py) and float(text).  A text is its sign, its *)
(* mantissa digits as an integer with prec digits after the point, and its *)
(* exponent; values are in units of 1e-6.                                  *)
(***************************************************************************)
CodecSpan == 6
UNIT_EXP == 6

Abs(x) == IF x < 0 THEN 0 - x ELSE x

SciText_Short(x, prec, tieUp) ==
    LET p == prec - 1
        a == Abs(x)
        scale == Pow10(Digits(a) - p - 1)
        q == a \div scale
    IN  [neg |-> x < 0, mant |-> q, prec |-> p, exp |-> Digits(a) - 1 - UNIT_EXP]

\* '%.<prec>E' % x.  The double nearest to a decimal tie lies on one side of
\* it, so a tie goes either way (tieUp).
SciText(x, prec, tieUp) ==
    LET a == Abs(x)
        D == Digits(a)
    IN  IF a = 0 THEN [neg |-> FALSE, mant |-> 0, prec |-> prec, exp |-> 0]
        ELSE IF D <= prec + 1
        THEN [neg |-> x < 0, mant |-> a * Pow10(prec + 1 - D), prec |-> prec,
              exp |-> D - 1 - UNIT_EXP]
        ELSE LET scale == Pow10(D - prec - 1)
                 q == a \div scale
                 r == a % scale
                 m == IF 2 * r > scale \/ (2 * r = scale /\ tieUp) THEN q + 1 ELSE q
             IN  IF m = Pow10(prec + 1)
                 THEN [neg |-> x < 0, mant |-> Pow10(prec), prec |-> prec,
                       exp |-> D - UNIT_EXP]
                 ELSE [neg |-> x < 0, mant |-> m, prec |-> prec,
                       exp |-> D - 1 - UNIT_EXP]

\* float(text): mant * 10^(exp - prec), in units of 1e-6
ParseSci(text) ==
    LET k == text.exp + UNIT_EXP - text.prec
        a == IF k >= 0 THEN text.mant * Pow10(k) ELSE text.mant \div Pow10(0 - k)
    IN  IF text.neg THEN 0 - a ELSE a

CodecBases == {6, 99995, 1000000, 12345675, 19999990, 0 - 1234565}

CodecValues ==
    UNION {(b - CodecSpan)..(b + CodecSpan) : b \in CodecBases}

InitCodec ==
    \E x \in CodecValues :
        /\ is_on = 0
        /\ mode = "VOLTS"
        /\ cur_compliance = DEFAULT_CURRENT_COMPLIANCE
        /\ volt_compliance = DEFAULT_VOLTAGE_COMPLIANCE
        /\ OUTPUT_on = 0
        /\ cur_limit = DEFAULT_CURRENT_LIMIT
        /\ timeout = TIMEOUT_DEFAULT
        /\ call = [op |-> "value", arg |-> x]
        /\ io = <<>>
        /\ err = "none"
        /\ pre = [op |-> "none"]
        /\ atfail = [obj |-> [op |-> "none"], len |-> 0, failed |-> FALSE]
        /\ out_before = "none"
        /\ ret = "None"
        /\ raw_spec_list = <<>>
        /\ paramsets = <<>>
        /\ open_sessions = {}
        /\ closes = 0
        /\ ren_released = 0
        /\ visa_rsrc = DefaultResource

Encode(fmt, prec) ==
    \E tieUp \in BOOLEAN :
        /\ call' = [op |-> fmt, arg |-> call.arg]
        /\ io' = <<Ev("text", SciText(call.arg, prec, tieUp), 0)>>
        /\ ret' = "None"
        /\ UNCHANGED <<err, pre, atfail, out_before>>
        /\ UNCHANGED <<objvars, scanvars, closevars, visa_rsrc>>

Encode4E == Encode("%.4E", 4)

Encode6E == Encode("%.6E", 6)

Decode ==
    /\ call.op \in {"%.4E", "%.6E"}
    /\ call' = [op |-> "float", arg |-> call.arg]
    /\ ret' = ParseSci(io[1].s)
    /\ UNCHANGED <<io, err, pre, atfail, out_before>>
    /\ UNCHANGED <<objvars, scanvars, closevars, visa_rsrc>>

NextCodec ==
    \/ Encode4E
    \/ Encode6E
    \/ Decode

SpecCodec == InitCodec /\ [][NextCodec]_vars

(***************************************************************************)
(* list_instruments (AgilentE3633A.py and Keithley2635A.py): the bus scan. *)
(* A candidate is what the resource at one address does when probed: the   *)
(* open raises, the identification query raises, or it answers with the   *)
(* comma-separated fields idn.  The model field is a sequence of           *)
(* characters, so that re.match can be computed.                           *)
(***************************************************************************)
MaxBus == 2

E3633A == <<"E", "3", "6", "3", "3", "A">>
E3633A_OPT == E3633A \o <<"-", "1">>
E3631A == <<"E", "3", "6", "3", "1", "A">>
Model2635A == <<" ", "M", "o", "d", "e", "l", " ", "2", "6", "3", "5", "A">>

OpenError == [kind |-> "open_error", idn |-> <<>>]
QueryError == [kind |-> "query_error", idn |-> <<>>]
Idn(fields) == [kind |-> "idn", idn |-> fields]

Candidates ==
    {OpenError, QueryError,
     Idn(<<"HEWLETT-PACKARD", E3633A, "0", "1.7-5.0-1.0">>),
     Idn(<<"HEWLETT-PACKARD", E3633A_OPT, "0", "1.7-5.0-1.0">>),
     Idn(<<"HEWLETT-PACKARD", E3631A, "0", "1.0">>),
     Idn(<<"Keithley Instruments Inc.", Model2635A, "1234", "2.2.6">>),
     Idn(<<"HEWLETT-PACKARD", E3633A, "0">>),
     Idn(<<"HP70951B">>),
     Idn(<<"HEWLETT-PACKARD", E3633A, "0", "1.7", "5.0">>)}

Buses == UNION {[1..n -> Candidates] : n \in 0..MaxBus}

\* the pattern given to re.match by each module
Pattern(cls) == IF cls = "AgilentE3633A" THEN E3633A ELSE Model2635A

\* re.match(pattern, s) for a pattern of literal characters: s starts with it
ReMatch(pattern, s) ==
    Len(pattern) <= Len(s) /\ SubSeq(s, 1, Len(pattern)) = pattern

\* idn.rstrip().split(',', 4): at most four cuts, so at most five parts
Split4(fields) ==
    IF Len(fields) <= 5 THEN fields
    ELSE SubSeq(fields, 1, 4) \o <<"rest">>

ParamSet(cls, spec, parts) ==
    [cls |-> cls, visa_address |-> spec, manufacturer |-> parts[1],
     serial |-> parts[3], model |-> parts[2], version |-> parts[4]]

\* one pass of the loop: s holds paramsets, the sessions opened and the exception
\* that left the loop.  VisaIOError is caught and the candidate skipped; the
\* unpacking of anything but four parts raises ValueError, which is not caught.
Probe(s, cls, spec, c) ==
    IF s.err # "none" THEN s
    ELSE IF c.kind = "open_error" THEN s
    ELSE LET s1 == [s EXCEPT !.open = @ \cup {spec}, !.inst = {spec}]
         IN  IF c.kind = "query_error" THEN s1
             ELSE LET parts == Split4(c.idn)
                  IN  IF Len(parts) # 4 THEN [s1 EXCEPT !.err = "ValueError"]
                      ELSE IF ReMatch(Pattern(cls), parts[2])
                           THEN [s1 EXCEPT !.paramsets =
                                    Append(@, ParamSet(cls, spec, parts))]
                           ELSE s1

RECURSIVE ScanLoop(_, _, _, _)
ScanLoop(s, cls, bus, spec) ==
    IF spec > Len(bus) THEN s
    ELSE ScanLoop(Probe(s, cls, spec, bus[spec]), cls, bus, spec + 1)

list_instruments(cls, bus) ==
    ScanLoop([paramsets |-> <<>>, open |-> {}, inst |-> {}, err |-> "none"],
             cls, bus, 1)

\* The sessions still open when list_instruments is left.  The function closes
\* none of those it opened (s.open).  Whether a resource object that is no longer
\* referenced closes its session depends on the interpreter finalizing it
\* (finalized): then the sessions of earlier passes are closed as inst is
\* rebound and the last one as the frame is dropped, except that an escaping
\* exception keeps the frame, and with it the session bound to inst.
StillOpen(s, finalized) ==
    IF ~finalized THEN s.open
    ELSE IF s.err = "none" THEN {} ELSE s.inst

ListInstruments(cls) ==
    \E bus \in Buses, finalized \in BOOLEAN :
        LET s == list_instruments(cls, bus)
        IN  /\ raw_spec_list' = bus
            /\ paramsets' = s.paramsets
            /\ open_sessions' = StillOpen(s, finalized)
            /\ call' = [op |-> "list_instruments", arg |-> cls]
            /\ err' = s.err
            /\ ret' = (IF s.err = "none" THEN s.paramsets ELSE "None")
            /\ io' = <<>>
            /\ UNCHANGED <<pre, atfail, out_before>>
            /\ UNCHANGED objvars
            /\ UNCHANGED closevars
            /\ UNCHANGED visa_rsrc

Agilent_list_instruments == ListInstruments("AgilentE3633A")

Keithley_list_instruments == ListInstruments("Keithley")

NextScan ==
    \/ Agilent_list_instruments
    \/ Keithley_list_instruments

SpecScan == Init /\ [][NextScan]_vars

(***************************************************************************)
(* Properties                                                               *)
(***************************************************************************)
OutputOff == Ev(OUTPUT_CMD, "smua.OUTPUT_OFF", 0)
OutputOn == Ev(OUTPUT_CMD, "smua.OUTPUT_ON", 0)
FuncTo(m) == Ev(FUNC_CMD, "smua.OUTPUT_DC" \o m, 0)

\* the mode that the last call asks for, when it is set_voltage or set_current
Requested == IF call.op = "set_voltage" THEN "VOLTS" ELSE "AMPS"

IsSetLevel == call.op \in {"set_voltage", "set_current"}

\* the last call was set_voltage / set_current and had to switch the mode
IsModeSwitch == IsSetLevel /\ pre.mode # Requested

\* the events of a mode switch, in order
SwitchSequence(m) == <<OutputOff, FuncTo(m), Ev("sleep", "", 100), OutputOn>>

IsPrefix(s, t) == Len(s) <= Len(t) /\ s = SubSeq(t, 1, Len(s))

\* the last call ran the four events of the switch and then wrote the level
\* (or, when a write failed, stopped inside that sequence)
RanSwitchSequence ==
    IF err = "none"
    THEN /\ Len(io) = 5
         /\ SubSeq(io, 1, 4) = SwitchSequence(Requested)
         /\ ~IsOutput(io[5]) /\ ~IsFunc(io[5])
    ELSE Len(io) <= 4 /\ IsPrefix(io, SwitchSequence(Requested))

\* C1: the source-function command is never written while the output is
\* enabled, i.e. while the last output command on the wire is OUTPUT_ON.
\* (Stated as claimed; violated by turn_on followed by set_func.)
C1_FuncNeverWhileOutputOn ==
    \A i \in DOMAIN io : IsFunc(io[i]) => LastOut(io, i - 1, out_before) # "ON"

\* C2: a mode switch requested by set_voltage / set_current while the output is
\* enabled writes output-off, mode-change, waits 100 ms and writes output-on,
\* in that order, with no other output or mode command in between.
C2_SwitchWhileOn ==
    (IsModeSwitch /\ pre.is_on = 1) => RanSwitchSequence

C2_Witness ==
    /\ call.op = "set_voltage" /\ pre.mode = "AMPS" /\ pre.is_on = 1
    /\ err = "none" /\ Len(io) = 5

CompliancesKept ==
    cur_compliance = pre.cur_compliance /\ volt_compliance = pre.volt_compliance

IsSameModeSetFunc == call.op = "set_func" /\ call.arg = pre.mode
IsSameModeSetLevel == IsSetLevel /\ pre.mode = Requested

\* C5 as claimed: requesting the active mode writes no mode-change and no
\* output command and changes no tracked field, for set_func as for
\* set_voltage / set_current.
C5_SameModeNoOp ==
    (IsSameModeSetFunc \/ IsSameModeSetLevel) =>
        /\ \A i \in DOMAIN io : ~IsFunc(io[i]) /\ ~IsOutput(io[i])
        /\ KeithleyObj = pre

\* C5 amended: requesting the active mode never changes the tracked mode or
\* compliances.  set_voltage / set_current then write no mode-change, no
\* output-off and no delay; they write output-on (first) exactly when the output
\* was off.  set_func called directly changes no tracked field but still writes
\* the mode-change command, once.
C5_SameModeKeepsState ==
    /\ IsSameModeSetFunc =>
          /\ KeithleyObj = pre
          /\ io = (IF err = "none" THEN <<FuncTo(pre.mode)>> ELSE <<>>)
    /\ IsSameModeSetLevel =>
          /\ mode = pre.mode /\ CompliancesKept
          /\ \A i \in DOMAIN io :
                ~IsFunc(io[i]) /\ ~IsOutputOff(io[i]) /\ io[i].cmd # "sleep"
          /\ err = "none" =>
                IF pre.is_on = 0
                THEN Len(io) = 2 /\ io[1] = OutputOn /\ is_on = 1
                ELSE Len(io) = 1 /\ is_on = pre.is_on

C5_Witness ==
    IsSameModeSetFunc /\ err = "none" /\ io = <<FuncTo(mode)>>

\* C6: Agilent set_voltage with a voltage outside [0, 20] V fails with an
\* out-of-range error, writes nothing and leaves OUTPUT_on unchanged.
\* (Stated as claimed; violated by set_voltage(25 V) with the output off.)
C6_OutOfRangeWritesNothing ==
    (call.op = "set_voltage" /\ ~(call.arg >= 0 /\ call.arg <= 20000000)) =>
        /\ err # "none"
        /\ io = <<>>
        /\ OUTPUT_on = pre.OUTPUT_on

\* C7: set_current_limit writes output-off first exactly when the tracked
\* output is on, then the limit; the limit is never written while the last
\* output command on the wire is output-on; on return OUTPUT_on = 0.
C7_LimitOnlyWhileOff ==
    call.op = "set_current_limit" =>
        /\ \A i \in DOMAIN io :
              io[i].cmd = ":SOUR:CURR" => LastOut(io, i - 1, out_before) # "ON"
        /\ err = "none" =>
              /\ OUTPUT_on = 0
              /\ io = (IF pre.OUTPUT_on = 1 THEN <<Ev(":OUTP", "OFF", 0)>> ELSE <<>>)
                      \o <<Ev(":SOUR:CURR", "", Fmt6E(call.arg))>>

C7_Witness ==
    /\ call.op = "set_current_limit" /\ pre.OUTPUT_on = 1 /\ err = "none"
    /\ Len(io) = 2 /\ OUTPUT_on = 0

KeithleyTransitions ==
    {"turn_on", "turn_off", "set_func", "set_voltage", "set_current",
     "set_voltage_compliance", "set_current_compliance", "init_function"}

\* C8: when a write fails inside a Keithley transition, the tracked fields keep
\* the values they had immediately before the failed write, no later step runs
\* (nothing more is put on the wire) and the transport error leaves the call.
C8_FailureKeepsTrackedState ==
    (call.op \in KeithleyTransitions /\ atfail.failed) =>
        /\ err = "VisaIOError"
        /\ KeithleyObj = atfail.obj
        /\ Len(io) = atfail.len

C8_Witness ==
    /\ call.op = "set_voltage" /\ err = "VisaIOError"
    /\ pre.is_on = 1 /\ pre.mode = "AMPS"
    /\ io = <<OutputOff>> /\ is_on = 0 /\ mode = "AMPS"

\* C9: when a write, a query or the parsing of a reply raises inside
\* get_spectrum or get_peak_info, the session timeout on exit is the one in
\* force before the call.  (Stated as claimed; violated by a failing query.)
C9_TimeoutRestoredOnFailure ==
    (call.op \in {"get_spectrum", "get_peak_info"} /\ err # "none") =>
        timeout = pre.timeout

\* C10: between completed HPOSA operations the session timeout is the default
\* of 300 ms.  (Stated as claimed; violated by get_sweep_time.)
C10_TimeoutDefaultBetweenCalls ==
    err = "none" => timeout = 300

\* C11: transactions are half-duplex: no command is written while the response
\* to an earlier query of the call is still unread.
\* (Stated as claimed; violated by get_spectrum and get_peak_info, which write
\* 'TS;DONE?' and go on writing without reading its response.)
C11_HalfDuplex ==
    \A i \in DOMAIN io : IsWrite(io[i]) => Unread(io, i - 1) = 0

\* the candidate answers with four fields and its model matches the pattern
Matches(cls, c) ==
    c.kind = "idn" /\ Len(c.idn) = 4 /\ ReMatch(Pattern(cls), c.idn[2])

RECURSIVE Descriptors(_, _, _)
Descriptors(cls, bus, spec) ==
    IF spec > Len(bus) THEN <<>>
    ELSE (IF Matches(cls, bus[spec])
          THEN <<ParamSet(cls, spec, bus[spec].idn)>> ELSE <<>>)
         \o Descriptors(cls, bus, spec + 1)

\* C12: whatever the candidates do (I/O error, malformed identification string,
\* no match), list_instruments raises nothing and returns exactly one descriptor
\* per matching candidate.
\* (Stated as claimed; violated by a candidate whose reply has not four fields.)
C12_ScanNeverAborts ==
    call.op = "list_instruments" =>
        /\ err = "none"
        /\ ret = Descriptors(call.arg, raw_spec_list, 1)

\* C13: after close() has returned, every further operation on the session
\* fails with SessionClosed and sends nothing to the instrument.
\* (Stated as claimed; violated by any method called after close.)
C13_ClosedSessionRejects ==
    (closes >= 1 /\ call.op # "close") => (err = "SessionClosed" /\ io = <<>>)

\* C14: however many times close() is called on a session, the release of remote
\* enable is issued to the transport exactly once.
\* (Stated as claimed; violated by the second close.)
C14_ReleasedOnce ==
    closes >= 1 => ren_released = 1

IsProtection == call.op \in {"set_volt_protection", "set_curr_protection"}

IsLevelWrite(ev) == ev.cmd \in {"VOLT:PROT:LEV", "CURR:PROT:LEV"}

\* the bounds the claim gives for a range reply, in 1e-6 V and 1e-6 A
LevelAllowed(op, volt_range, level) ==
    /\ level >= 0
    /\ \/ op = "set_volt_protection" /\ volt_range = "P8V" /\ level <= 8240000
       \/ op = "set_volt_protection" /\ volt_range = "P20V" /\ level <= 20600000
       \/ op = "set_curr_protection" /\ volt_range = "P8V" /\ level <= 20000000
       \/ op = "set_curr_protection" /\ volt_range = "P20V" /\ level <= 10000000

\* C15: set_volt_protection and set_curr_protection query the voltage range
\* first; the level is then written, once and formatted '%.6E', if and only if
\* it lies in the bounds of the range just read (P8V: 0..8.24 V, 0..20 A; P20V:
\* 0..20.6 V, 0..10 A); otherwise nothing is written.
C15_ProtectionBoundsFromRange ==
    IsProtection =>
        /\ \A i \in DOMAIN io : IsLevelWrite(io[i]) =>
              /\ i = 3 /\ Len(io) = 3
              /\ io[1] = Ev("VOLT:RANG?", "", 0) /\ IsRead(io[2])
              /\ LevelAllowed(call.op, io[2].s, call.arg)
              /\ io[3] = Ev(IF call.op = "set_volt_protection"
                            THEN "VOLT:PROT:LEV" ELSE "CURR:PROT:LEV",
                            "", Fmt6E(call.arg))
        /\ (err = "none" /\ LevelAllowed(call.op, io[2].s, call.arg)) =>
              (Len(io) = 3 /\ IsLevelWrite(io[3]))
        /\ err = "none" => (io[1] = Ev("VOLT:RANG?", "", 0) /\ IsRead(io[2]))

\* a current of exactly 10 A is written in range P20V
C15_Witness ==
    /\ call.op = "set_curr_protection" /\ err = "none"
    /\ Len(io) = 3 /\ io[2].s = "P20V" /\ io[3].n = 10000000

\* the events of the i-th pass of get_peak_info start after PassBase(i)
PassBase(i) == 7 * (i - 1)

\* C16: get_peak_info keeps the caller's order: the marker is moved to the
\* peak kinds in the order of peak_id (duplicates included), and the returned
\* lists have one entry per kind, the i-th being the amplitude and wavelength
\* read after the marker was moved to peak_id[i], whatever the amplitudes.
C16_PeakOrderPreserved ==
    call.op = "get_peak_info" =>
        /\ \A j \in DOMAIN io : io[j].cmd = "MKPK" =>
              \E i \in DOMAIN call.arg :
                  j = PassBase(i) + 3 /\ io[j].s = call.arg[i] \o ";"
        /\ err = "none" =>
              /\ Len(ret.pk_wl) = Len(call.arg)
              /\ Len(ret.pk_amp) = Len(call.arg)
              /\ Len(io) = 7 * Len(call.arg)
              /\ \A i \in DOMAIN call.arg :
                    /\ io[PassBase(i) + 3] = Ev("MKPK", call.arg[i] \o ";", 0)
                    /\ io[PassBase(i) + 4].cmd = "MKA?;"
                    /\ IsRead(io[PassBase(i) + 5])
                    /\ ret.pk_amp[i] = io[PassBase(i) + 5].n
                    /\ io[PassBase(i) + 6].cmd = "MKF?;"
                    /\ IsRead(io[PassBase(i) + 7])
                    /\ ret.pk_wl[i] = io[PassBase(i) + 7].n

\* the highest peak reads lower than the next one and still comes first
C16_Witness ==
    /\ call.op = "get_peak_info" /\ err = "none"
    /\ call.arg = <<"HIP", "NH">>
    /\ ret.pk_amp = <<3, 7>> /\ ret.pk_wl = <<1550, 1560>>

\* the tokens the claim says are converted, for the tokens t of the frame
KeptTokens(tk) ==
    IF Len(tk[1]) > 2 THEN <<SubSeq(tk[1], 3, Len(tk[1]))>> \o Tail(tk) ELSE Tail(tk)

\* C17: for a frame of at least one token, spectrum returns the integers of
\* [t[0][2:]] + t[1:] when the first token is longer than 2 characters and of
\* t[1:] otherwise: len(t) or len(t)-1 values in the order of the tokens; the
\* tokens AB12 34 56 give [12, 34, 56].
C17_FrameReconstruction ==
    (call.op = "spectrum" /\ Len(io) = 3 /\ io[3].s # <<>>) =>
        LET tk == io[3].s
            kept == KeptTokens(tk)
        IN  /\ err = "none" <=> (\A k \in DOMAIN kept : IsPyInt(kept[k]))
            /\ err = "none" =>
                  /\ Len(ret) = Len(kept)
                  /\ Len(ret) \in {Len(tk), Len(tk) - 1}
                  /\ \A k \in DOMAIN kept : ret[k] = PyInt(kept[k])
            /\ tk = << <<"A", "B", "1", "2">>, <<"3", "4">>, <<"5", "6">> >> =>
                  ret = <<12, 34, 56>>
            /\ tk = << <<"A", "B">>, <<"3", "4">>, <<"-", "7">> >> =>
                  ret = <<34, 0 - 7>>

C17_Witness ==
    /\ call.op = "spectrum" /\ err = "none"
    /\ io[3].s = << <<"A", "B", "1", "2">>, <<"3", "4">>, <<"5", "6">> >>
    /\ ret = <<12, 34, 56>>

\* a returned spectrum, with the replies to CF?, SP? and TR? that made it
IsSpectrum == call.op = "get_spectrum" /\ err = "none"

Center == io[4].n
Span == io[6].n
NPts == Len(ret.amp)

RatEq(a, b) == a.num * b.den = b.num * a.den
RatLeq(a, b) == a.num * b.den <= b.num * a.den
RatDiff(a, b) == Rat(a.num * b.den - b.num * a.den, a.den * b.den)

EvenlySpaced(wl) ==
    \A i \in 1..(Len(wl) - 2) :
        RatEq(RatDiff(wl[i + 1], wl[i]), RatDiff(wl[i + 2], wl[i + 1]))

NonDecreasing(wl) ==
    \A i \in 1..(Len(wl) - 1) : RatLeq(wl[i], wl[i + 1])

\* C18 as claimed: the axis has the length of the amplitudes, starts at
\* center - span/2, ends at center + span/2, is evenly spaced and non-decreasing.
\* (Violated by a trace of one point, whose axis is [center - span/2] alone.)
C18_AxisSpansCenter ==
    (IsSpectrum /\ NPts >= 1) =>
        /\ Len(ret.wl) = NPts
        /\ RatEq(ret.wl[1], Rat(2 * Center - Span, 2))
        /\ RatEq(ret.wl[NPts], Rat(2 * Center + Span, 2))
        /\ EvenlySpaced(ret.wl)
        /\ NonDecreasing(ret.wl)

\* C18 (amended): the axis has the length of the amplitudes, starts at
\* center - span/2, is evenly spaced and non-decreasing; it ends at
\* center + span/2 when it has at least two points, a single point being
\* center - span/2.  For center 1550 nm, span 10 nm and 5 points it is
\* [1545, 1547.5, 1550, 1552.5, 1555] nm.
C18_SpanAxis ==
    IsSpectrum =>
        /\ Len(ret.wl) = NPts
        /\ NPts >= 1 => RatEq(ret.wl[1], Rat(2 * Center - Span, 2))
        /\ NPts >= 2 => RatEq(ret.wl[NPts], Rat(2 * Center + Span, 2))
        /\ EvenlySpaced(ret.wl)
        /\ NonDecreasing(ret.wl)
        /\ (Center = 1550 /\ Span = 10 /\ NPts = 5) =>
              /\ RatEq(ret.wl[1], Rat(1545, 1))
              /\ RatEq(ret.wl[2], Rat(3095, 2))
              /\ RatEq(ret.wl[3], Rat(1550, 1))
              /\ RatEq(ret.wl[4], Rat(3105, 2))
              /\ RatEq(ret.wl[5], Rat(1555, 1))

C18_Witness ==
    /\ IsSpectrum /\ Center = 1550 /\ Span = 10 /\ NPts = 5
    /\ RatEq(ret.wl[2], Rat(3095, 2))

\* C19: whenever a token of the trace response is not a number, get_spectrum
\* raises and returns no amplitude sequence.
\* (Stated as claimed; violated when numpy returns the tokens read so far.)
C19_BadTokenRaises ==
    (call.op = "get_spectrum" /\ Len(io) >= 9
        /\ \E k \in DOMAIN io[9].s : ~IsNumeric(io[9].s[k]))
    => err # "none"

\* the text in io[1] of the value call.arg has been read back into ret
IsDecoded == call.op = "float"

\* half a unit of the last digit the format keeps for x, in units of 1e-6
\* (twice that tolerance, to stay in the integers)
TwiceTolerance(x, prec) == Pow10(Digits(Abs(x)) - 1 - prec)

\* C20: decoding the '%.4E' or '%.6E' text of a value gives the value back to
\* within half a unit of the last digit of the format, and exactly when the
\* format holds all digits of the value.
C20_RoundTrip ==
    IsDecoded =>
        LET prec == io[1].s.prec
            x == call.arg
        IN  /\ 2 * Abs(ret - x) <= TwiceTolerance(x, prec)
            /\ Digits(Abs(x)) <= prec + 1 => ret = x

\* 12.345675 written '%.4E' comes back as 12.346
C20_Witness ==
    IsDecoded /\ io[1].s.prec = 4 /\ call.arg = 12345675 /\ ret = 12346000

\* the last output command written on the session so far
LastOutput == LastOut(io, Len(io), out_before)

\* C21: in every reachable state the tracked output flag (Keithley is_on,
\* Agilent OUTPUT_on) is 1 exactly when the last output command written to the
\* instrument was output-on, and 0 when it was output-off or none was written.
\* It holds also when writes fail, a failed write sending nothing.
C21_OutputFlagTracksWire ==
    /\ is_on \in {0, 1} /\ OUTPUT_on \in {0, 1}
    /\ ~IsAgilentSession => (is_on = 1 <=> LastOutput = "ON")
    /\ ~IsKeithleySession => (OUTPUT_on = 1 <=> LastOutput = "ON")

\* the Agilent output was on and is turned off again
C21_Witness ==
    /\ IsAgilentSession /\ call.op = "turn_output_off" /\ err = "none"
    /\ out_before = "ON" /\ LastOutput = "OFF" /\ OUTPUT_on = 0

\* C22: no session opened to probe a candidate is still open when
\* list_instruments is left, whether the candidate matched, did not match or
\* failed.  (Stated as claimed; violated by any candidate that can be opened.)
C22_NoProbeSessionLeftOpen ==
    call.op = "list_instruments" => open_sessions = {}

IsProbe == call.op = "_check_visa_support"

\* the identification query of the probe was answered with text
ProbeAnswered(text) == Len(io) = 2 /\ IsRead(io[2]) /\ io[2].s = text

EagleFraming ==
    [read_termination |-> "CR", write_termination |-> "CR", baud_rate |-> 921600]

\* C23: _check_visa_support returns 'Eagle' and leaves the resource with CR
\* terminations and 921600 baud when the reply is exactly 'JETI_PIC_VERSA'; for
\* any other reply and when the query raises it returns None with the three
\* settings as they were before the call; no exception leaves it.
C23_ProbeRestoresFraming ==
    IsProbe =>
        /\ err = "none"
        /\ IF io = <<>> THEN atfail.failed ELSE io[1] = Ev("*IDN?", "", 0)
        /\ IF ProbeAnswered("JETI_PIC_VERSA")
           THEN ret = "Eagle" /\ visa_rsrc = EagleFraming
           ELSE ret = "None" /\ visa_rsrc = pre

\* the read of the reply timed out and the settings were put back
C23_Witness ==
    /\ IsProbe /\ atfail.failed /\ Len(io) = 1 /\ ret = "None"
    /\ pre.baud_rate = 9600 /\ pre.read_termination = "LF" /\ visa_rsrc = pre

ValidModes == {"VOLTS", "AMPS"}

IsValidSetVoltage ==
    call.op = "set_voltage" /\ call.arg >= 0 /\ call.arg <= 20000000

AgilentOn == Ev(":OUTP", "ON", 0)

\* C25: Agilent set_voltage with a voltage in [0, 20] V writes the level first
\* and the output-on command after it, the latter exactly when the tracked
\* output was off; it never writes output-off; on return OUTPUT_on = 1.
C25_LevelBeforeOutputOn ==
    IsValidSetVoltage =>
        /\ \A i \in DOMAIN io : ~IsOutputOff(io[i])
        /\ \A i \in DOMAIN io : IsOutputOn(io[i]) =>
              (i = 2 /\ pre.OUTPUT_on = 0 /\ io[1] = Ev(":SOUR:VOLT", "", Fmt6E(call.arg)))
        /\ err = "none" =>
              /\ io = <<Ev(":SOUR:VOLT", "", Fmt6E(call.arg))>>
                      \o (IF pre.OUTPUT_on = 0 THEN <<AgilentOn>> ELSE <<>>)
              /\ OUTPUT_on = 1

\* the output was off: the level, then output-on
C25_Witness ==
    /\ IsValidSetVoltage /\ err = "none" /\ pre.OUTPUT_on = 0
    /\ Len(io) = 2 /\ io[2] = AgilentOn /\ OUTPUT_on = 1

Min(a, b) == IF a <= b THEN a ELSE b
Max(a, b) == IF a >= b THEN a ELSE b

CountWrites == {i \in DOMAIN io : io[i].cmd = "smua.measure.filter.count"}

\* C26: when no write fails, set_measurement_integration writes exactly one
\* command, carrying min(max(nplc, 1), 25), and set_filter writes one count,
\* min(max(count, 1), 100), for every integer argument.
\* (Stated as claimed; violated by set_filter with a type it does not know.)
C26_IntegerSettingsClamped ==
    ~atfail.failed =>
        /\ call.op = "set_measurement_integration" =>
              io = <<Ev("smua.measure.nplc", "", Min(Max(call.arg, 1), 25))>>
        /\ call.op = "set_filter" =>
              /\ Cardinality(CountWrites) = 1
              /\ \A i \in CountWrites : io[i].n = Min(Max(call.arg.count, 1), 100)

====
